---------------------------- MODULE Spec2Model ----------------------------
(***************************************************************************)
(* Model of two1/bitcoin/crypto.py: PrivateKey, PublicKey, the DER point   *)
(* codec and the address derivation.                                       *)
(*                                                                         *)
(* Representation.  A bytes object is a sequence of integers 0..255.  A    *)
(* Base58 string is the sequence of its characters' positions (0..57) in   *)
(* the Base58 alphabet; a hex string is the sequence of its digits' values *)
(* (0..15).  A call returns Ok(v) or Raise(e), e the Python exception's    *)
(* name.  The curve engine (two1.crypto.ecdsa), the hash primitives and    *)
(* the Base58Check codec are not part of crypto.py; they are modelled from *)
(* the contracts the specification gives them, the curve being a curve     *)
(* y^2 = x^3 + 7 of prime order over a small prime field so that every     *)
(* scalar and every point can be enumerated.                               *)
(***************************************************************************)
EXTENDS Integers, Sequences, FiniteSets, TLC

VARIABLES sk, other, pk, sig, ret

vars == <<sk, other, pk, sig, ret>>

None == [none |-> TRUE]

Ok(v) == [ok |-> TRUE, val |-> v]

Raise(e) == [ok |-> FALSE, err |-> e]

(***************************************************************************)
(* Bounds of the model.                                                    *)
(***************************************************************************)
\* scalars offered to the constructors run from 0 to n + ScalarSlack
ScalarSlack == 2

\* number of distinct messages offered to sign and verify
NumMessages == 2

(***************************************************************************)
(* Program constants.                                                      *)
(***************************************************************************)
TESTNET_VERSION == 239

MAINNET_VERSION == 128

\* width of a serialized scalar or coordinate: to_bytes(32, 'big')
KeyLen == 32

\* SEC1 prefix of the uncompressed serialization
UncompressedPrefix == 4

\* address version bytes
AddrMainnet == 0

AddrTestnet == 111

(***************************************************************************)
(* Integers and bytes.                                                     *)
(***************************************************************************)
Pow2(e) == 2 ^ e

RECURSIVE bit_length(_)
bit_length(v) == IF v = 0 THEN 0 ELSE 1 + bit_length(v \div 2)

\* int.to_bytes(len, 'big') of a non-negative v.  The model's integers are
\* below 2^31, so every byte above the low four is zero.
to_bytes(v, len) ==
    [i \in 1..len |-> IF len - i >= 4 THEN 0 ELSE (v \div (256 ^ (len - i))) % 256]

\* int.from_bytes(b, 'big').  The model's integers are below 2^31: the value
\* is that of the low four bytes, and every byte above them must be zero.
int_from_bytes(b) ==
    LET L == Len(b)
        at(i) == IF i >= 1 THEN b[i] ELSE 0
    IN  CASE (\A i \in 1..(L - 4) : b[i] = 0) /\ at(L - 3) < 128 ->
               at(L - 3) * 16777216 + at(L - 2) * 65536 + at(L - 1) * 256 + at(L)

\* Python slice b[lo:hi] (0-based, hi exclusive, clipped to the length)
Slice(b, lo, hi) ==
    LET h == IF hi > Len(b) THEN Len(b) ELSE hi
    IN  IF lo >= h THEN <<>> ELSE SubSeq(b, lo + 1, h)

\* bytes_to_str: lowercase hex, two digits per byte
bytes_to_str(b) ==
    [i \in 1..(2 * Len(b)) |->
        IF i % 2 = 1 THEN b[(i + 1) \div 2] \div 16 ELSE b[i \div 2] % 16]

\* bytes.fromhex of a hex string of even length
bytes_fromhex(h) ==
    IF Len(h) % 2 # 0 THEN Raise("ValueError")
    ELSE Ok([i \in 1..(Len(h) \div 2) |-> 16 * h[2 * i - 1] + h[2 * i]])

(***************************************************************************)
(* Hash primitives (hashlib).  A digest is a fixed-length byte string that *)
(* depends on every byte of the input and on its position.                 *)
(***************************************************************************)
\* the sum of (b[i] + 1) * (i * i + salt) for lo <= i <= hi, modulo 65521
RECURSIVE Absorb(_, _, _, _)
Absorb(b, lo, hi, salt) ==
    IF lo > hi THEN 0
    ELSE IF lo = hi THEN ((b[lo] + 1) * (lo * lo + salt)) % 65521
    ELSE LET mid == (lo + hi) \div 2
         IN  (Absorb(b, lo, mid, salt) + Absorb(b, mid + 1, hi, salt)) % 65521

Digest(b, len, salt) ==
    LET h == Absorb(b, 1, Len(b), salt)
    IN  [i \in 1..len |-> ((h + 1) * (2 * i + 1) + (h \div 256) + i * i) % 256]

sha256(b) == Digest(b, 32, 17)

ripemd160(b) == Digest(b, 20, 101)

(***************************************************************************)
(* Base58Check (the base58 package).  The payload followed by the first    *)
(* four bytes of sha256(sha256(payload)) is read as a big-endian number    *)
(* and written in base 58; each leading zero byte becomes a leading digit  *)
(* 0 (the character '1').                                                  *)
(***************************************************************************)
\* long division by d of digits[lo..hi], a big-endian number in base `base`,
\* entered with remainder rem: the quotient's digits and the remainder left
RECURSIVE DivStep(_, _, _, _, _, _)
DivStep(digits, lo, hi, base, d, rem) ==
    IF lo = hi
    THEN LET cur == rem * base + digits[lo]
         IN  [q |-> <<cur \div d>>, r |-> cur % d]
    ELSE LET mid == (lo + hi) \div 2
             left == DivStep(digits, lo, mid, base, d, rem)
             right == DivStep(digits, mid + 1, hi, base, d, left.r)
         IN  [q |-> left.q \o right.q, r |-> right.r]

\* s without its leading zero digits
StripZeros(s) ==
    IF \A i \in 1..Len(s) : s[i] = 0 THEN <<>>
    ELSE SubSeq(s, CHOOSE i \in 1..Len(s) :
                       s[i] # 0 /\ \A j \in 1..(i - 1) : s[j] = 0, Len(s))

LeadingZeros(s) == Len(s) - Len(StripZeros(s))

\* the digits in base `to` of the number whose digits in base `from` are s
RECURSIVE Rebase(_, _, _)
Rebase(s, from, to) ==
    LET t == StripZeros(s)
    IN  IF t = <<>> THEN <<>>
        ELSE LET d == DivStep(t, 1, Len(t), from, to, 0)
             IN  Append(Rebase(d.q, from, to), d.r)

b58encode(v) ==
    [i \in 1..LeadingZeros(v) |-> 0] \o Rebase(v, 256, 58)

b58decode(s) ==
    [i \in 1..LeadingZeros(s) |-> 0] \o Rebase(s, 58, 256)

b58_checksum(payload) == SubSeq(sha256(sha256(payload)), 1, 4)

b58encode_check(payload) == b58encode(payload \o b58_checksum(payload))

b58decode_check(s) ==
    LET raw == b58decode(s)
        body == Slice(raw, 0, Len(raw) - 4)
        check == Slice(raw, Len(raw) - 4, Len(raw))
    IN  IF Len(raw) < 4 \/ check # b58_checksum(body)
        THEN Raise("ValueError")
        ELSE Ok(body)

(***************************************************************************)
(* DER (pyasn1): a SEQUENCE of INTEGERs, each INTEGER the minimal two's    *)
(* complement big-endian form of its value.  Lengths stay below 128, so    *)
(* only the short length form occurs.                                      *)
(***************************************************************************)
RECURSIVE Unsigned(_)
Unsigned(v) == IF v < 256 THEN <<v>> ELSE Append(Unsigned(v \div 256), v % 256)

der_integer_content(v) ==
    IF v >= 0
    THEN LET u == Unsigned(v)
         IN  IF u[1] >= 128 THEN <<0>> \o u ELSE u
    ELSE LET L == IF v >= -128 THEN 1 ELSE IF v >= -32768 THEN 2 ELSE 3
         IN  to_bytes(v + 256 ^ L, L)

der_integer(v) ==
    LET c == der_integer_content(v) IN <<2, Len(c)>> \o c

der_integer_value(c) ==
    IF c[1] >= 128 THEN int_from_bytes(c) - 256 ^ Len(c) ELSE int_from_bytes(c)

\* the values of the INTEGERs that fill b, in order; ok is FALSE when b is not
\* a run of well-formed INTEGERs
RECURSIVE der_integers(_, _)
der_integers(b, out) ==
    IF b = <<>> THEN [ok |-> TRUE, ints |-> out]
    ELSE IF Len(b) < 3 \/ b[1] # 2 \/ b[2] = 0 \/ b[2] >= 128 \/ Len(b) < 2 + b[2]
         THEN [ok |-> FALSE, ints |-> <<>>]
         ELSE der_integers(Slice(b, 2 + b[2], Len(b)),
                           Append(out, der_integer_value(Slice(b, 2, 2 + b[2]))))

\* decoder.decode(der)[0]: the first value of der, which must be a SEQUENCE
decoder_decode(b) ==
    IF Len(b) < 2 \/ b[1] # 48 \/ b[2] >= 128 \/ Len(b) < 2 + b[2]
    THEN Raise("PyAsn1Error")
    ELSE LET r == der_integers(Slice(b, 2, 2 + b[2]), <<>>)
         IN  IF r.ok THEN Ok(r.ints) ELSE Raise("PyAsn1Error")

ECPointAffine(x, y) == [x |-> x, y |-> y]

der_encode_point(pt) ==
    LET body == der_integer(pt.x) \o der_integer(pt.y)
    IN  <<48, Len(body)>> \o body

der_encode_hex(pt) == bytes_to_str(der_encode_point(pt))

\* der is [type |-> "bytes" | "str" | ..., val |-> ...]
der_decode_point(der) ==
    LET raw == IF der.type = "bytes" THEN Ok(der.val)
               ELSE IF der.type = "str" THEN bytes_fromhex(der.val)
               ELSE Raise("TypeError")
    IN  IF ~raw.ok THEN raw
        ELSE LET d == decoder_decode(raw.val)
             IN  IF ~d.ok THEN d
                 ELSE IF Len(d.val) < 2 THEN Raise("PyAsn1Error")
                 ELSE Ok(ECPointAffine(d.val[1], d.val[2]))

(***************************************************************************)
(* The curve engine (two1.crypto.ecdsa).  bitcoin_curve stands for         *)
(* secp256k1(): the same equation y^2 = x^3 + 7, a prime field, a group of *)
(* prime order n with n < p of the same bit length, and a generator G.     *)
(***************************************************************************)
bitcoin_curve == [p |-> 211, n |-> 199, b |-> 7, G |-> [x |-> 3, y |-> 33]]

ModInv(a, m) == CHOOSE i \in 1..(m - 1) : (a * i) % m = 1

\* P + Q for finite P, Q with P # -Q
EC_add(P, Q) ==
    LET p == bitcoin_curve.p
        l == IF P = Q
             THEN (3 * P.x * P.x * ModInv((2 * P.y) % p, p)) % p
             ELSE (((Q.y - P.y + p) % p) * ModInv((Q.x - P.x + p) % p, p)) % p
        x == (l * l + 2 * p - P.x - Q.x) % p
    IN  [x |-> x, y |-> (l * ((P.x - x + p) % p) + p - P.y) % p]

\* k*G for 1 <= k < n, by doubling and adding
RECURSIVE EC_mul(_)
EC_mul(k) ==
    IF k = 1 THEN bitcoin_curve.G
    ELSE IF k % 2 = 0
         THEN LET h == EC_mul(k \div 2) IN EC_add(h, h)
         ELSE EC_add(EC_mul(k - 1), bitcoin_curve.G)

\* <<1*G, 2*G, ..., (n-1)*G>>
GMultiples == [k \in 1..(bitcoin_curve.n - 1) |-> EC_mul(k)]

nlen == bit_length(bitcoin_curve.n)

\* the packed integer of a point: x in the high bits, y in the low nlen bits
point_to_int(pt) == pt.x * Pow2(nlen) + pt.y

\* ECPointAffine.from_int(curve, i)
ECPointAffine_from_int(i) == ECPointAffine(i \div Pow2(nlen), i % Pow2(nlen))

\* curve.public_key(k): the packed integer of k*G.  k*G is the point at
\* infinity when n divides k; it has no coordinates and the engine fails.
curve_public_key(k) ==
    IF k % bitcoin_curve.n = 0 THEN Raise("EngineError")
    ELSE Ok(point_to_int(GMultiples[k % bitcoin_curve.n]))

\* curve.is_on_curve(pt)
is_on_curve(pt) ==
    (pt.y * pt.y) % bitcoin_curve.p
        = (pt.x * pt.x * pt.x + bitcoin_curve.b) % bitcoin_curve.p

\* curve.y_from_x(x): a square root of x^3 + 7
y_from_x(x) ==
    CHOOSE y \in 0..(bitcoin_curve.p - 1) : is_on_curve(ECPointAffine(x, y))

\* the digest of the message that the engine signs, reduced to a scalar
message_scalar(message) ==
    Absorb(message, 1, Len(message), 5) % (bitcoin_curve.n - 1)

\* curve.sign(message, k): a pair (r, s), 1 <= r, s < n, that determines the
\* key (modulo n) and the message digest
curve_sign(message, k) ==
    LET d == k % bitcoin_curve.n
    IN  ECPointAffine((3 * d) % bitcoin_curve.n,
                      1 + ((message_scalar(message) + d) % (bitcoin_curve.n - 1)))

\* curve.verify(message, sig_pt, point): sig_pt is the signature of message
\* under the scalar of point
curve_verify(message, sig_pt, point) ==
    \E d \in 1..(bitcoin_curve.n - 1) :
        /\ GMultiples[d] = point
        /\ curve_sign(message, d) = sig_pt

(***************************************************************************)
(* PublicKey.  An object is [point, testnet, address, b58address].         *)
(***************************************************************************)
\* PublicKey.__bytes__
PublicKey_bytes(self) ==
    <<UncompressedPrefix>> \o to_bytes(self.point.x, KeyLen)
                           \o to_bytes(self.point.y, KeyLen)

\* PublicKey.__init__ without its assertion
PublicKey__init__NoAssert(x, y, testnet) ==
    LET p == ECPointAffine(x, y)
        pk_sha == sha256(PublicKey_bytes([point |-> p]))
        ripe == ripemd160(pk_sha)
        version == IF testnet THEN <<AddrTestnet>> ELSE <<AddrMainnet>>
        address == version \o ripe
    IN  Ok([point |-> p, testnet |-> testnet, address |-> address,
            b58address |-> b58encode_check(address)])

\* PublicKey.__init__ with the two address version bytes exchanged
PublicKey__init__SwappedVersion(x, y, testnet) ==
    LET p == ECPointAffine(x, y)
    IN  IF ~is_on_curve(p) THEN Raise("AssertionError")
        ELSE LET pk_sha == sha256(PublicKey_bytes([point |-> p]))
                 ripe == ripemd160(pk_sha)
                 version == IF testnet THEN <<AddrMainnet>> ELSE <<AddrTestnet>>
                 address == version \o ripe
             IN  Ok([point |-> p, testnet |-> testnet, address |-> address,
                     b58address |-> b58encode_check(address)])

\* PublicKey.__init__(x, y, testnet)
PublicKey__init__(x, y, testnet) ==
    LET p == ECPointAffine(x, y)
    IN  IF ~is_on_curve(p) THEN Raise("AssertionError")
        ELSE LET pk_sha == sha256(PublicKey_bytes([point |-> p]))
                 ripe == ripemd160(pk_sha)
                 version == IF testnet THEN <<AddrTestnet>> ELSE <<AddrMainnet>>
                 address == version \o ripe
             IN  Ok([point |-> p, testnet |-> testnet, address |-> address,
                     b58address |-> b58encode_check(address)])

PublicKey_from_point(p, testnet) == PublicKey__init__(p.x, p.y, testnet)

PublicKey_from_int(i, testnet) ==
    PublicKey_from_point(ECPointAffine_from_int(i), testnet)

PublicKey_from_der(d, testnet) ==
    LET point == der_decode_point(d)
    IN  IF ~point.ok THEN point ELSE PublicKey_from_point(point.val, testnet)

\* the names Python resolves inside PublicKey.from_bytes before line 168
\* runs: its parameters, the module's globals, and the builtins it uses
from_bytes_params == {"b", "testnet"}

module_globals ==
    {"base58", "hashlib", "random", "univ", "namedtype", "encoder", "decoder",
     "bytes_to_str", "ECPointAffine", "ECPointJacobian", "EllipticCurve",
     "secp256k1", "bitcoin_curve", "ECDERPoint", "der_encode_point",
     "der_encode_hex", "der_decode_point", "PrivateKey", "PublicKey"}

builtins == {"len", "int", "bytes", "isinstance", "str", "object"}

\* the names PublicKey.from_bytes reads that are bound nowhere
from_bytes_unbound ==
    {"key_bytes", "key"} \ (from_bytes_params \cup module_globals \cup builtins)

\* PublicKey.from_bytes(b, testnet): line 168 reads key_bytes and line 170
\* reads key; an unbound name raises NameError, before a byte of b is read
PublicKey_from_bytes(b, testnet) ==
    CASE "key_bytes" \in from_bytes_unbound -> Raise("NameError")
      [] "key" \in from_bytes_unbound -> Raise("NameError")

PublicKey_from_hex(h, testnet) ==
    LET b == bytes_fromhex(h)
    IN  IF ~b.ok THEN b ELSE PublicKey_from_bytes(b.val, testnet)

PublicKey_from_private_key(private_key) == private_key.public_key

\* PublicKey.verify handing the engine its point and the signature exchanged
PublicKey_verifySwappedArgs(self, message, signature) ==
    LET s == IF signature.type = "bytes" THEN Ok(signature.val)
             ELSE IF signature.type = "str" THEN bytes_fromhex(signature.val)
             ELSE Raise("TypeError")
    IN  IF ~s.ok THEN s
        ELSE LET sig_pt == der_decode_point([type |-> "bytes", val |-> s.val])
             IN  IF ~sig_pt.ok THEN sig_pt
                 ELSE Ok(curve_verify(message, self.point, sig_pt.val))

\* PublicKey.verify(message, signature)
PublicKey_verify(self, message, signature) ==
    LET s == IF signature.type = "bytes" THEN Ok(signature.val)
             ELSE IF signature.type = "str" THEN bytes_fromhex(signature.val)
             ELSE Raise("TypeError")
    IN  IF ~s.ok THEN s
        ELSE LET sig_pt == der_decode_point([type |-> "bytes", val |-> s.val])
             IN  IF ~sig_pt.ok THEN sig_pt
                 ELSE Ok(curve_verify(message, sig_pt.val, self.point))

PublicKey_to_der(self) == der_encode_point(self.point)

PublicKey_to_hex(self) == bytes_to_str(PublicKey_bytes(self))

PublicKey_int(self) == self.point.x * Pow2(bit_length(bitcoin_curve.n)) + self.point.y

(***************************************************************************)
(* PrivateKey.  An object is [key, version, public_key].                   *)
(***************************************************************************)
\* PrivateKey.__init__(k, testnet)
PrivateKey__init__(k, testnet) ==
    LET point == curve_public_key(k)
    IN  IF ~point.ok THEN point
        ELSE LET pub == PublicKey_from_int(point.val, testnet)
             IN  IF ~pub.ok THEN pub
                 ELSE Ok([key |-> k,
                          version |-> IF testnet THEN TESTNET_VERSION
                                                 ELSE MAINNET_VERSION,
                          public_key |-> pub.val])

PrivateKey_from_int(i, testnet) == PrivateKey__init__(i, testnet)

\* from_b58check taking the mainnet version byte for the testnet flag
PrivateKey_from_b58checkSwappedNet(private_key) ==
    LET b58dec == b58decode_check(private_key)
    IN  IF ~b58dec.ok THEN b58dec
        ELSE IF b58dec.val = <<>> THEN Raise("IndexError")
        ELSE LET version == b58dec.val[1]
             IN  IF version \notin {TESTNET_VERSION, MAINNET_VERSION}
                 THEN Raise("AssertionError")
                 ELSE PrivateKey__init__(int_from_bytes(Tail(b58dec.val)),
                                         version = MAINNET_VERSION)

\* from_b58check without the assertion on the version byte
PrivateKey_from_b58checkNoAssert(private_key) ==
    LET b58dec == b58decode_check(private_key)
    IN  IF ~b58dec.ok THEN b58dec
        ELSE IF b58dec.val = <<>> THEN Raise("IndexError")
        ELSE LET version == b58dec.val[1]
             IN  PrivateKey__init__(int_from_bytes(Tail(b58dec.val)),
                                    version = TESTNET_VERSION)

\* PrivateKey.from_b58check(private_key)
PrivateKey_from_b58check(private_key) ==
    LET b58dec == b58decode_check(private_key)
    IN  IF ~b58dec.ok THEN b58dec
        ELSE IF b58dec.val = <<>> THEN Raise("IndexError")
        ELSE LET version == b58dec.val[1]
             IN  IF version \notin {TESTNET_VERSION, MAINNET_VERSION}
                 THEN Raise("AssertionError")
                 ELSE PrivateKey__init__(int_from_bytes(Tail(b58dec.val)),
                                         version = TESTNET_VERSION)

\* random.SystemRandom().randrange(a, b): the values that can be drawn
randrange(a, b) == a..(b - 1)

\* the scalars PrivateKey.from_random can pass to the constructor
from_random_draws == randrange(1, bitcoin_curve.n - 1)

PrivateKey_from_random(k, testnet) == PrivateKey__init__(k, testnet)

\* PrivateKey.__bytes__
PrivateKey_bytes(self) == <<self.version>> \o to_bytes(self.key, KeyLen)

PrivateKey_to_b58check(self) == b58encode_check(PrivateKey_bytes(self))

PrivateKey_to_hex(self) == bytes_to_str(PrivateKey_bytes(self))

PrivateKey_int(self) == self.key

PrivateKey_raw_sign(self, message) == curve_sign(message, self.key)

PrivateKey_sign(self, message) ==
    der_encode_point(PrivateKey_raw_sign(self, message))

(***************************************************************************)
(* The state machine.  sk is the private key under test, other a second    *)
(* private key, pk the public key under test, sig the last signature made  *)
(* by sk, and ret the last call: its name, its arguments and its result.   *)
(* A constructor runs in a fresh program; the objects never change, so the *)
(* calls that follow are calls of methods on the object constructed.       *)
(***************************************************************************)
NoCall == [op |-> "none"]

Init ==
    /\ sk = None
    /\ other = None
    /\ pk = None
    /\ sig = None
    /\ ret = NoCall

Fresh == sk = None /\ other = None /\ pk = None /\ sig = None /\ ret = NoCall

ValidScalars == 1..(bitcoin_curve.n - 1)

ScalarInputs == 0..(bitcoin_curve.n + ScalarSlack)

VersionInputs == {MAINNET_VERSION, TESTNET_VERSION, AddrMainnet, AddrTestnet,
                  MAINNET_VERSION + 1}

\* Base58Check strings offered to from_b58check in a fresh program: every
\* version byte of VersionInputs before scalars at both ends of the range
FixedB58 ==
    { b58encode_check(<<v>> \o to_bytes(k, KeyLen)) :
        v \in VersionInputs,
        k \in {0, 1, 2, bitcoin_curve.n - 1, bitcoin_curve.n, bitcoin_curve.n + 1} }

\* a string whose checksum does not match: the last character replaced
Corrupt(s) == [s EXCEPT ![Len(s)] = (s[Len(s)] + 1) % 58]

ValOrNone(res) == IF res.ok THEN res.val ELSE None

(******************************* PrivateKey ********************************)
NewPrivateKey(k, testnet) ==
    /\ Fresh
    /\ LET res == PrivateKey__init__(k, testnet)
       IN  /\ sk' = ValOrNone(res)
           /\ ret' = [op |-> "PrivateKey", k |-> k, testnet |-> testnet, out |-> res]
    /\ UNCHANGED <<other, pk, sig>>

PrivFromInt(k, testnet) ==
    /\ Fresh
    /\ LET res == PrivateKey_from_int(k, testnet)
       IN  /\ sk' = ValOrNone(res)
           /\ ret' = [op |-> "from_int", k |-> k, testnet |-> testnet, out |-> res]
    /\ UNCHANGED <<other, pk, sig>>

PrivFromRandom(testnet) ==
    /\ Fresh
    /\ \E k \in from_random_draws :
         LET res == PrivateKey_from_random(k, testnet)
         IN  /\ sk' = ValOrNone(res)
             /\ ret' = [op |-> "from_random", k |-> k, testnet |-> testnet,
                        out |-> res]
    /\ UNCHANGED <<other, pk, sig>>

\* from_b58check of a string that arrives from outside
PrivFromB58check(s) ==
    /\ Fresh
    /\ LET res == PrivateKey_from_b58check(s)
       IN  /\ sk' = ValOrNone(res)
           /\ ret' = [op |-> "from_b58check", arg |-> s, src |-> "input",
                      out |-> res]
    /\ UNCHANGED <<other, pk, sig>>

PrivToB58check ==
    /\ sk # None
    /\ ret' = [op |-> "to_b58check", out |-> PrivateKey_to_b58check(sk)]
    /\ UNCHANGED <<sk, other, pk, sig>>

\* from_b58check of the string to_b58check has just returned
PrivRoundTrip ==
    /\ sk # None
    /\ ret.op = "to_b58check"
    /\ ret' = [op |-> "from_b58check", arg |-> ret.out, src |-> "to_b58check",
               out |-> PrivateKey_from_b58check(ret.out)]
    /\ UNCHANGED <<sk, other, pk, sig>>

PrivBytes ==
    /\ sk # None
    /\ ret' = [op |-> "bytes", out |-> PrivateKey_bytes(sk)]
    /\ UNCHANGED <<sk, other, pk, sig>>

PrivToHex ==
    /\ sk # None
    /\ ret' = [op |-> "to_hex", out |-> PrivateKey_to_hex(sk)]
    /\ UNCHANGED <<sk, other, pk, sig>>

PrivInt ==
    /\ sk # None
    /\ ret' = [op |-> "int", out |-> PrivateKey_int(sk)]
    /\ UNCHANGED <<sk, other, pk, sig>>

NextPriv ==
    \/ \E k \in ScalarInputs, t \in BOOLEAN : NewPrivateKey(k, t)
    \/ \E k \in ScalarInputs, t \in BOOLEAN : PrivFromInt(k, t)
    \/ \E t \in BOOLEAN : PrivFromRandom(t)
    \/ \E s \in FixedB58 : PrivFromB58check(s)
    \/ \E s \in FixedB58 : PrivFromB58check(Corrupt(s))
    \/ PrivToB58check
    \/ PrivRoundTrip
    \/ PrivBytes
    \/ PrivToHex
    \/ PrivInt

SpecPriv == Init /\ [][NextPriv]_vars

(******************************** PublicKey ********************************)
Message(i) == <<102, 111, 111, 98, 97, 113 + i>>

Messages == { Message(i) : i \in 1..NumMessages }

CurvePoints == { GMultiples[k] : k \in ValidScalars }

\* points offered to the constructors: every point of the curve and, for
\* each, the points one step away in y and in x
PointInputs ==
    CurvePoints
      \cup { ECPointAffine(P.x, (P.y + 1) % bitcoin_curve.p) : P \in CurvePoints }
      \cup { ECPointAffine((P.x + 1) % bitcoin_curve.p, P.y) : P \in CurvePoints }
      \cup { ECPointAffine(0, 0) }

AsBytes(b) == [type |-> "bytes", val |-> b]

AsStr(h) == [type |-> "str", val |-> h]

\* DER blobs offered to from_der besides the encodings of PointInputs: one
\* cut short, one that is no SEQUENCE, one of a type that is no bytes or str
BadDer ==
    { AsBytes(SubSeq(der_encode_point(bitcoin_curve.G), 1, 4)),
      AsBytes(<<2, 1, 3>>),
      [type |-> "int", val |-> <<3>>] }

\* byte strings offered to from_bytes in a fresh program: 65 and 33 bytes
\* under every prefix from 0 to 5
KeyBytesInputs ==
    { <<prefix>> \o to_bytes(bitcoin_curve.G.x, KeyLen)
                 \o to_bytes(bitcoin_curve.G.y, KeyLen) : prefix \in 0..5 }
      \cup { <<prefix>> \o to_bytes(bitcoin_curve.G.x, KeyLen) : prefix \in 0..5 }

\* the 33-byte compressed serialization of a point
Compressed(p) == <<2 + (p.y % 2)>> \o to_bytes(p.x, KeyLen)

\* signatures offered to verify from outside: the signature of the first
\* message under scalar 1 as bytes and as a hex string, and the bad blobs
SigInputs ==
    { AsBytes(der_encode_point(curve_sign(Message(1), 1))),
      AsStr(der_encode_hex(curve_sign(Message(1), 1))) }
      \cup BadDer

PubCall(op, arg, testnet, res) ==
    /\ Fresh
    /\ pk' = ValOrNone(res)
    /\ ret' = [op |-> op, arg |-> arg, testnet |-> testnet, src |-> "input",
               out |-> res]
    /\ UNCHANGED <<sk, other, sig>>

NewPublicKey(p, testnet) ==
    PubCall("PublicKey", p, testnet, PublicKey__init__(p.x, p.y, testnet))

PubFromPoint(p, testnet) ==
    PubCall("from_point", p, testnet, PublicKey_from_point(p, testnet))

PubFromInt(p, testnet) ==
    PubCall("from_int", p, testnet, PublicKey_from_int(point_to_int(p), testnet))

PubFromDer(p, testnet) ==
    PubCall("from_der", p, testnet,
            PublicKey_from_der(AsBytes(der_encode_point(p)), testnet))

PubFromDerHex(p, testnet) ==
    PubCall("from_der", p, testnet,
            PublicKey_from_der(AsStr(der_encode_hex(p)), testnet))

PubFromBadDer(d, testnet) ==
    PubCall("from_bad_der", d, testnet, PublicKey_from_der(d, testnet))

PubFromBytes(b, testnet) ==
    PubCall("from_bytes", b, testnet, PublicKey_from_bytes(b, testnet))

PubFromHex(b, testnet) ==
    PubCall("from_hex", b, testnet, PublicKey_from_hex(bytes_to_str(b), testnet))

\* PublicKey.from_private_key(sk), sk just constructed
PubFromPrivateKey ==
    /\ sk # None
    /\ pk = None
    /\ ret.op = "PrivateKey"
    /\ pk' = PublicKey_from_private_key(sk)
    /\ ret' = [op |-> "from_private_key", out |-> Ok(pk')]
    /\ UNCHANGED <<sk, other, sig>>

PubMethod(op, res) ==
    /\ pk # None
    /\ ret' = [op |-> op, out |-> res]
    /\ UNCHANGED <<sk, other, pk, sig>>

PubBytes == PubMethod("bytes", PublicKey_bytes(pk))

PubToHex == PubMethod("to_hex", PublicKey_to_hex(pk))

PubToDer == PubMethod("to_der", PublicKey_to_der(pk))

PubInt == PubMethod("int", PublicKey_int(pk))

PubAddress == PubMethod("address", pk.address)

PubB58address == PubMethod("b58address", pk.b58address)

PubVerify(m, signature) ==
    /\ pk # None
    /\ ret' = [op |-> "verify", msg |-> m, signature |-> signature,
               out |-> PublicKey_verify(pk, m, signature)]
    /\ UNCHANGED <<sk, other, pk, sig>>

\* from_bytes of the serialization bytes(pk) has just returned
PubBytesRoundTrip ==
    /\ pk # None
    /\ ret.op = "bytes"
    /\ ret' = [op |-> "from_bytes", arg |-> ret.out, testnet |-> pk.testnet,
               src |-> "bytes", out |-> PublicKey_from_bytes(ret.out, pk.testnet)]
    /\ UNCHANGED <<sk, other, pk, sig>>

\* from_bytes of the compressed serialization of pk's point
PubCompressedRoundTrip ==
    /\ pk # None
    /\ ret.op = "bytes"
    /\ ret' = [op |-> "from_bytes", arg |-> Compressed(pk.point),
               testnet |-> pk.testnet, src |-> "compressed",
               out |-> PublicKey_from_bytes(Compressed(pk.point), pk.testnet)]
    /\ UNCHANGED <<sk, other, pk, sig>>

NextPub ==
    \/ \E p \in PointInputs, t \in BOOLEAN : NewPublicKey(p, t)
    \/ \E p \in PointInputs, t \in BOOLEAN : PubFromPoint(p, t)
    \/ \E p \in PointInputs, t \in BOOLEAN : PubFromInt(p, t)
    \/ \E p \in PointInputs, t \in BOOLEAN : PubFromDer(p, t)
    \/ \E p \in PointInputs, t \in BOOLEAN : PubFromDerHex(p, t)
    \/ \E d \in BadDer, t \in BOOLEAN : PubFromBadDer(d, t)
    \/ \E b \in KeyBytesInputs, t \in BOOLEAN : PubFromBytes(b, t)
    \/ \E b \in KeyBytesInputs, t \in BOOLEAN : PubFromHex(b, t)
    \/ \E k \in ScalarInputs, t \in BOOLEAN : NewPrivateKey(k, t)
    \/ PubFromPrivateKey
    \/ PubBytes
    \/ PubToHex
    \/ PubToDer
    \/ PubInt
    \/ PubAddress
    \/ PubB58address
    \/ \E m \in Messages, s \in SigInputs : PubVerify(m, s)
    \/ PubBytesRoundTrip
    \/ PubCompressedRoundTrip

SpecPub == Init /\ [][NextPub]_vars

(******************************* signatures ********************************)
\* the scalars of a second key, chosen against the signer's scalar k: its
\* successor, the scalar of the opposite point, and the scalar n further on
OtherScalars(k) ==
    ({k + 1, bitcoin_curve.n - (k % bitcoin_curve.n), k + bitcoin_curve.n}
        \cap ScalarInputs) \ {k}

NewOther ==
    /\ sk # None
    /\ other = None
    /\ sig = None
    /\ \E k \in OtherScalars(sk.key) :
         LET res == PrivateKey__init__(k, sk.public_key.testnet)
         IN  /\ res.ok
             /\ other' = res.val
    /\ UNCHANGED <<sk, pk, sig, ret>>

Sign(m) ==
    /\ sk # None
    /\ sig = None
    /\ sig' = [msg |-> m, raw |-> PrivateKey_raw_sign(sk, m),
               der |-> PrivateKey_sign(sk, m)]
    /\ ret' = [op |-> "sign", msg |-> m, out |-> sig'.der]
    /\ UNCHANGED <<sk, other, pk>>

\* verify, by the signer's own public key, of the signature sk made
VerifyOwn(m) ==
    /\ sk # None
    /\ sig # None
    /\ ret' = [op |-> "verify", key |-> "own", point |-> sk.public_key.point,
               msg |-> m,
               out |-> PublicKey_verify(sk.public_key, m, AsBytes(sig.der))]
    /\ UNCHANGED <<sk, other, pk, sig>>

\* verify, by the other key's public key, of the signature sk made
VerifyOther(m) ==
    /\ other # None
    /\ sig # None
    /\ ret' = [op |-> "verify", key |-> "other", point |-> other.public_key.point,
               msg |-> m,
               out |-> PublicKey_verify(other.public_key, m, AsBytes(sig.der))]
    /\ UNCHANGED <<sk, other, pk, sig>>

NextSig ==
    \/ \E k \in ScalarInputs, t \in BOOLEAN : NewPrivateKey(k, t)
    \/ NewOther
    \/ \E m \in Messages : Sign(m)
    \/ \E m \in Messages : VerifyOwn(m)
    \/ \E m \in Messages : VerifyOther(m)

SpecSig == Init /\ [][NextSig]_vars

(***************************************************************************)
(* The claims.                                                             *)
(***************************************************************************)
PrivateConstructors == {"PrivateKey", "from_int", "from_random"}

\* C1 (as claimed): every PrivateKey that exists has a scalar in [1, n-1],
\* and constructing one from a scalar outside [1, n-1] fails and yields no
\* key object.
C1_ScalarRange ==
    /\ sk # None => sk.key \in ValidScalars
    /\ ret.op \in PrivateConstructors /\ ret.k \notin ValidScalars =>
         ~ret.out.ok /\ sk = None

\* C2 (as claimed): from_bytes of the 65-byte uncompressed serialization
\* bytes(pk) returns a PublicKey with pk's point.
C2_UncompressedRoundTrip ==
    ret.op = "from_bytes" /\ ret.src = "bytes" =>
        ret.out.ok /\ ret.out.val.point = pk.point

\* C3 (as claimed): from_bytes of the 33-byte compressed form of pk's point
\* (prefix 2 + parity of y, then x) returns a PublicKey with the same point.
C3_CompressedRoundTrip ==
    ret.op = "from_bytes" /\ ret.src = "compressed" =>
        ret.out.ok /\ ret.out.val.point = pk.point

\* the exceptions with which crypto.py and its libraries reject an input
\* they have examined
RejectionErrors == {"AssertionError", "ValueError", "TypeError", "PyAsn1Error"}

\* C4 (as claimed): from_bytes of an input whose first byte is not 0x02,
\* 0x03 or 0x04 fails with an error that rejects the key format, and yields
\* no key object and no empty value.
C4_UnsupportedPrefix ==
    ret.op = "from_bytes" /\ ret.arg[1] \notin {2, 3, 4} =>
        ~ret.out.ok /\ ret.out.err \in RejectionErrors /\ pk = None

\* C5: for a key with scalar in [1, n-1] on either network, bytes() is the
\* version byte followed by the scalar in 32 zero-padded big-endian bytes,
\* to_b58check() is the Base58Check encoding of those bytes, and
\* from_b58check of that string is a key with the same scalar and network.
C5_PrivateRoundTrip ==
    sk # None /\ sk.key \in ValidScalars =>
        /\ ret.op = "bytes" =>
             /\ Len(ret.out) = 1 + KeyLen
             /\ ret.out[1] = sk.version
             /\ \A i \in 2..KeyLen : ret.out[i] = 0
             /\ ret.out[1 + KeyLen] = sk.key
        /\ ret.op = "to_b58check" =>
             b58decode_check(ret.out)
                 = Ok(<<sk.version>> \o to_bytes(sk.key, KeyLen))
        /\ ret.op = "from_b58check" /\ ret.src = "to_b58check" =>
             /\ ret.out.ok
             /\ ret.out.val.key = sk.key
             /\ ret.out.val.version = sk.version
             /\ ret.out.val.public_key.testnet = sk.public_key.testnet

C5_Witness ==
    /\ ret.op = "from_b58check"
    /\ ret.src = "to_b58check"
    /\ ret.out.ok
    /\ sk.key = bitcoin_curve.n - 1
    /\ sk.version = TESTNET_VERSION

\* C6 (as claimed): from_random returns a scalar of [1, n-1], and no value
\* of [1, n-1] is excluded from its draw.
C6_RandomRange ==
    ret.op = "from_random" =>
        /\ ret.out.ok
        /\ ret.out.val.key \in ValidScalars
        /\ \A v \in ValidScalars : v \in from_random_draws

\* C7: from_b58check of a string that decodes to version byte 0x80 gives a
\* Mainnet key and to 0xEF a Testnet key; for any other version byte it
\* fails with the assertion's error and constructs no key.
C7_VersionByte ==
    ret.op = "from_b58check" =>
        LET dec == b58decode_check(ret.arg)
        IN  dec.ok /\ dec.val # <<>> =>
              LET version == dec.val[1]
                  scalar == int_from_bytes(Tail(dec.val))
              IN  /\ version = MAINNET_VERSION /\ ret.out.ok =>
                       /\ ret.out.val.version = MAINNET_VERSION
                       /\ ~ret.out.val.public_key.testnet
                  /\ version = TESTNET_VERSION /\ ret.out.ok =>
                       /\ ret.out.val.version = TESTNET_VERSION
                       /\ ret.out.val.public_key.testnet
                  /\ version \in {MAINNET_VERSION, TESTNET_VERSION}
                       /\ scalar \in ValidScalars => ret.out.ok
                  /\ version \notin {MAINNET_VERSION, TESTNET_VERSION} =>
                       /\ ~ret.out.ok
                       /\ ret.out.err = "AssertionError"
                       /\ ret.src = "input" => sk = None

C7_Witness ==
    /\ ret.op = "from_b58check"
    /\ ret.src = "input"
    /\ b58decode_check(ret.arg).ok
    /\ b58decode_check(ret.arg).val[1] = AddrTestnet
    /\ ~ret.out.ok
    /\ sk = None

PublicConstructors == {"PublicKey", "from_point", "from_int", "from_der"}

\* C8: every PublicKey that exists holds a point for which is_on_curve is
\* true; the constructor, from_point, from_int and from_der fail with the
\* assertion's error on a point off the curve and leave no key (so no
\* address), and construct the key of that point otherwise; the public key
\* of PrivateKey(k), k in [1, n-1], exists and is on the curve.
C8_OnCurve ==
    /\ pk # None => is_on_curve(pk.point)
    /\ sk # None => is_on_curve(sk.public_key.point)
    /\ ret.op \in PublicConstructors =>
         IF is_on_curve(ret.arg)
         THEN ret.out.ok /\ ret.out.val.point = ret.arg
         ELSE ~ret.out.ok /\ ret.out.err = "AssertionError" /\ pk = None
    /\ ret.op = "PrivateKey" /\ ret.k \in ValidScalars =>
         ret.out.ok /\ is_on_curve(ret.out.val.public_key.point)

C8_Witness ==
    /\ ret.op = "from_der"
    /\ ~is_on_curve(ret.arg)
    /\ ~ret.out.ok
    /\ pk = None

\* C9: the DER signature sign returns decodes to the pair raw_sign produced;
\* verify of that signature returns true under the signer's own public key
\* and the message signed, and false when the message differs or when the
\* public key of another key, a different point, is used.
C9_SignVerify ==
    /\ sig # None => der_decode_point(AsBytes(sig.der)) = Ok(sig.raw)
    /\ ret.op = "verify" =>
         /\ ret.out.ok
         /\ ret.out.val <=> (ret.msg = sig.msg /\ ret.point = sk.public_key.point)
         /\ ret.key = "own" => ret.point = sk.public_key.point

C9_Witness ==
    /\ ret.op = "verify"
    /\ ret.key = "own"
    /\ ret.msg = sig.msg
    /\ ret.out.ok
    /\ ret.out.val
    /\ sig.raw.x >= 128
    /\ sk.key \in ValidScalars

\* the address the claim describes for a key with point p on network testnet
ClaimedAddress(p, testnet) ==
    <<IF testnet THEN 111 ELSE 0>>
        \o ripemd160(sha256(<<4>> \o to_bytes(p.x, 32) \o to_bytes(p.y, 32)))

C10_State ==
    pk # None =>
        /\ Len(pk.address) = 21
        /\ pk.address = ClaimedAddress(pk.point, pk.testnet)
        /\ pk.b58address = b58encode_check(ClaimedAddress(pk.point, pk.testnet))
        /\ ret.op = "address" => ret.out = pk.address
        /\ ret.op = "b58address" => ret.out = pk.b58address

\* C10: in every state a PublicKey's address is 21 bytes, the version byte
\* 0x00 (Mainnet) or 0x6F (Testnet) followed by RIPEMD160(SHA256(the 65-byte
\* uncompressed serialization of its point)), its b58address is the
\* Base58Check encoding of that address, the accessors return them, and no
\* operation changes the key.
C10_Address == [](C10_State) /\ [][pk # None => pk' = pk]_vars

C10_Witness ==
    /\ pk # None
    /\ pk.testnet
    /\ ret.op = "address"
    /\ ret.out[1] = AddrTestnet
    /\ Len(ret.out) = 21

=============================================================================
